---- MODULE Spec2Model ----
(***************************************************************************)
(* Model of src/main.rs: the "load" (ingestion) and query runs of the      *)
(* pipeline, the requests each run issues to the embedding provider and to *)
(* the index service, and the terminal outcome of main.                    *)
(*                                                                         *)
(* One process invocation is one run.  The index service keeps its points  *)
(* across invocations, so the model lets the program be invoked a second   *)
(* time against the collection the first invocation left behind.           *)
(***************************************************************************)
EXTENDS Integers, Sequences, FiniteSets, TLC

VARIABLES
    corpus,       \* content of src/reg-all.txt, a sequence of characters
    apiKey,       \* HUGGINGFACE_API_KEY: "missing", "invalid" or "valid"
    collExists,   \* index service: the collection exists
    store,        \* index service: the stored points, keyed by id
    history,      \* summaries of the finished earlier invocations
    mode,         \* args[1]: "unset", "load", "query" or "none"
    pc,           \* position of main: start, create, loop, qembed, search, done
    texts,        \* main: the chunks
    i,            \* load_data_to_qdrant: loop index
    points,       \* load_data_to_qdrant: accumulated (id, vector, text) tuples
    query,        \* main: the query text
    queryVector,  \* main: the embedded query
    requests,     \* every HTTP request issued by this run, with its response
    outcome,      \* terminal result of main
    printedId     \* the id printed by "Most similar text ID"

vars == << corpus, apiKey, collExists, store, history, mode, pc, texts, i,
           points, query, queryVector, requests, outcome, printedId >>

----------------------------------------------------------------------------
(* Bounds and constants *)

MaxCorpusLen == 4
MaxResults == 2
VectorSize == 384

NL == "\n"
Chars == {"a", NL}
NoId == -1

RECURSIVE SeqsUpTo(_, _)
SeqsUpTo(S, n) ==
    IF n = 0 THEN { << >> }
    ELSE LET shorter == SeqsUpTo(S, n - 1)
         IN  shorter \cup { Append(s, c) : s \in shorter, c \in S }

Corpora == SeqsUpTo(Chars, MaxCorpusLen)
Queries == { << "a" >> }
ApiKeys == { "missing", "invalid", "valid" }

(* A vector of n copies of the float f. *)
Vec(n, f) == [k \in 1..n |-> f]

----------------------------------------------------------------------------
(* Responses of the two external services *)

IndexResponses ==
    { [transport |-> TRUE,  status |-> "none"],
      [transport |-> FALSE, status |-> "ok"],
      [transport |-> FALSE, status |-> "err"] }

EmbedResponses ==
    { [transport |-> TRUE,  shape |-> "none",   data |-> << >>],
      [transport |-> FALSE, shape |-> "object", data |-> << >>],
      [transport |-> FALSE, shape |-> "flat",   data |-> Vec(VectorSize, 0)],
      [transport |-> FALSE, shape |-> "flat",   data |-> Vec(VectorSize, 1)],
      [transport |-> FALSE, shape |-> "flat",   data |-> Vec(VectorSize + 1, 0)] }

ResultItems == { [id |-> n] : n \in 0..1 }

SearchResponses ==
    { [transport |-> TRUE,  shape |-> "none",  result |-> << >>],
      [transport |-> FALSE, shape |-> "other", result |-> << >>] }
    \cup { [transport |-> FALSE, shape |-> "result", result |-> r] :
             r \in SeqsUpTo(ResultItems, MaxResults) }

----------------------------------------------------------------------------
(* Pure functions of the program *)

(* file_content.split("\n\n"): the pieces between the leftmost,            *)
(* non-overlapping occurrences of the delimiter, the last piece included.  *)
RECURSIVE SplitFrom(_, _, _)
SplitFrom(s, start, pos) ==
    IF pos + 1 > Len(s)
    THEN << SubSeq(s, start, Len(s)) >>
    ELSE IF s[pos] = NL /\ s[pos + 1] = NL
         THEN << SubSeq(s, start, pos - 1) >> \o SplitFrom(s, pos + 2, pos + 2)
         ELSE SplitFrom(s, start, pos + 1)

(* A chunker that drops the empty pieces. *)
SplitDropEmpty(s) == SelectSeq(SplitFrom(s, 1, 1), LAMBDA c : c # << >>)

Split(s) == SplitFrom(s, 1, 1)

(* texts.iter().enumerate(): the chunk the k-th iteration (from 0) sees. *)
(* A loop that walks the chunks from the last to the first. *)
ChunkAtReversed(ts, k) == ts[Len(ts) - k]

ChunkAt(ts, k) == ts[k + 1]

(* points.push((i as u64, vector, text.clone())) *)
(* Ids that start at 1. *)
MakePointOneBased(k, vector, text) == << k + 1, vector, text >>

(* Ids that continue after those of the earlier invocation. *)
MakePointContinued(k, vector, text) ==
    << k + Len(history) * Len(texts), vector, text >>

MakePoint(k, vector, text) == << k, vector, text >>

(* The "points" JSON body built by add_points_to_qdrant. *)
PointsBody(ps) ==
    [k \in 1..Len(ps) |->
        [id |-> ps[k][1], vector |-> ps[k][2], payload |-> [text |-> ps[k][3]]]]

(* The "vectors" JSON body built by create_qdrant_collection. *)
CollectionBody(vector_size, distance) ==
    [size |-> vector_size, distance |-> distance]

(* serde_json::from_str::<Vec<f32>>(&response) *)
(* A deserializer that turns a malformed body into the empty vector. *)
DeserializeLenient(resp) ==
    IF resp.shape = "flat"
    THEN [ok |-> TRUE, value |-> resp.data]
    ELSE [ok |-> TRUE, value |-> << >>]

Deserialize(resp) ==
    IF resp.shape = "flat"
    THEN [ok |-> TRUE,  value |-> resp.data]
    ELSE [ok |-> FALSE, value |-> << >>]

(* embed_text: whether the request is sent, and the Result it returns. *)
(* An embed_text that reads the credential only after the response. *)
EmbedTextSendFirst(key, resp) ==
    IF resp.transport
    THEN [sent |-> TRUE, ok |-> FALSE, err |-> "err_transport", vector |-> << >>]
    ELSE IF key = "missing"
    THEN [sent |-> TRUE, ok |-> FALSE, err |-> "err_config", vector |-> << >>]
    ELSE IF key = "invalid"
    THEN [sent |-> TRUE, ok |-> FALSE, err |-> "err_header", vector |-> << >>]
    ELSE IF resp.shape = "flat"
    THEN [sent |-> TRUE, ok |-> TRUE, err |-> "none", vector |-> resp.data]
    ELSE [sent |-> TRUE, ok |-> FALSE, err |-> "err_deser", vector |-> << >>]

EmbedText(key, resp) ==
    IF key = "missing"
    THEN [sent |-> FALSE, ok |-> FALSE, err |-> "err_config", vector |-> << >>]
    ELSE IF key = "invalid"
    THEN [sent |-> FALSE, ok |-> FALSE, err |-> "err_header", vector |-> << >>]
    ELSE IF resp.transport
    THEN [sent |-> TRUE, ok |-> FALSE, err |-> "err_transport", vector |-> << >>]
    ELSE LET d == Deserialize(resp)
         IN  IF d.ok
             THEN [sent |-> TRUE, ok |-> TRUE, err |-> "none", vector |-> d.value]
             ELSE [sent |-> TRUE, ok |-> FALSE, err |-> "err_deser", vector |-> << >>]

(* search_result.result.get(0).context("No similar vector found")?.id *)
(* A lookup that takes the last element and defaults to id 0. *)
MostSimilarLast(result) ==
    IF Len(result) = 0
    THEN [found |-> TRUE, id |-> 0]
    ELSE [found |-> TRUE, id |-> result[Len(result)].id]

MostSimilar(result) ==
    IF Len(result) = 0
    THEN [found |-> FALSE, id |-> NoId]
    ELSE [found |-> TRUE,  id |-> result[1].id]

(* A logged request. *)
Request(op, body, resp) == [op |-> op, body |-> body, resp |-> resp]

----------------------------------------------------------------------------
(* The index service, as the program assumes it *)

(* Upsert keyed by point id: a later point with the same id replaces. *)
Upsert(st, batch) ==
    LET ids == { batch[k].id : k \in 1..Len(batch) }
        last(n) == CHOOSE k \in 1..Len(batch) :
                      /\ batch[k].id = n
                      /\ \A m \in (k + 1)..Len(batch) : batch[m].id # n
    IN  { p \in st : p.id \notin ids } \cup { batch[last(n)] : n \in ids }

(* The service accepts a batch only into an existing collection and only  *)
(* when every vector has the collection's declared size.                   *)
UpsertResponses(batch) ==
    { r \in IndexResponses :
        (r.status = "ok") =>
            /\ collExists
            /\ \A k \in 1..Len(batch) : Len(batch[k].vector) = VectorSize }

----------------------------------------------------------------------------
(* Initial state: no invocation yet, empty index service *)

ProcInit ==
    /\ mode = "unset"
    /\ pc = "start"
    /\ texts = << >>
    /\ i = 0
    /\ points = << >>
    /\ query = << >>
    /\ queryVector = << >>
    /\ requests = << >>
    /\ outcome = "running"
    /\ printedId = NoId

Init ==
    /\ corpus \in Corpora
    /\ apiKey \in ApiKeys
    /\ collExists = FALSE
    /\ store = {}
    /\ history = << >>
    /\ ProcInit

Finish(result) ==
    /\ outcome' = result
    /\ pc' = "done"

----------------------------------------------------------------------------
(* Actions *)

(* main, Some("load"): read the file, split it, enter load_data_to_qdrant. *)
MainLoad ==
    /\ pc = "start"
    /\ mode' = "load"
    /\ \E readOk \in BOOLEAN :
         IF readOk
         THEN /\ texts' = Split(corpus)
              /\ pc' = "create"
              /\ UNCHANGED outcome
         ELSE /\ Finish("err_io")
              /\ UNCHANGED texts
    /\ UNCHANGED << corpus, apiKey, collExists, store, history, i, points,
                    query, queryVector, requests, printedId >>

(* main, Some(query) *)
MainQuery ==
    /\ pc = "start"
    /\ mode' = "query"
    /\ \E q \in Queries : query' = q
    /\ pc' = "qembed"
    /\ UNCHANGED << corpus, apiKey, collExists, store, history, texts, i,
                    points, queryVector, requests, outcome, printedId >>

(* main, None *)
MainNone ==
    /\ pc = "start"
    /\ mode' = "none"
    /\ outcome' = "ok"
    /\ pc' = "done"
    /\ UNCHANGED << corpus, apiKey, collExists, store, history, texts, i,
                    points, query, queryVector, requests, printedId >>

(* create_qdrant_collection, called first by load_data_to_qdrant.  Only a  *)
(* transport failure is an error: the status is never looked at.           *)
CreateCollection ==
    /\ pc = "create"
    /\ \E resp \in IndexResponses :
         /\ requests' = Append(requests,
                Request("create", CollectionBody(VectorSize, "Cosine"), resp))
         /\ collExists' = (collExists \/ resp.status = "ok")
         /\ IF resp.transport
            THEN Finish("err_transport")
            ELSE /\ pc' = "loop"
                 /\ UNCHANGED outcome
    /\ UNCHANGED << corpus, apiKey, store, history, mode, texts, i, points,
                    query, queryVector, printedId >>

(* One iteration of the loop of load_data_to_qdrant. *)
EmbedChunk ==
    /\ pc = "loop"
    /\ i < Len(texts)
    /\ \E resp \in EmbedResponses :
         LET text == ChunkAt(texts, i)
             r == EmbedText(apiKey, resp)
         IN  /\ requests' = IF r.sent
                            THEN Append(requests, Request("embed", << text >>, resp))
                            ELSE requests
             /\ IF r.ok
                THEN /\ points' = Append(points, MakePoint(i, r.vector, text))
                     /\ i' = i + 1
                     /\ UNCHANGED << pc, outcome >>
                ELSE /\ Finish(r.err)
                     /\ UNCHANGED << points, i >>
    /\ UNCHANGED << corpus, apiKey, collExists, store, history, mode, texts,
                    query, queryVector, printedId >>

(* add_points_to_qdrant after the loop, then the return to main and        *)
(* "Data loaded successfully".  The status is never looked at.             *)
AddPoints ==
    /\ pc = "loop"
    /\ i = Len(texts)
    /\ LET batch == PointsBody(points)
       IN  \E resp \in UpsertResponses(batch) :
             /\ requests' = Append(requests, Request("upsert", batch, resp))
             /\ store' = IF resp.status = "ok" THEN Upsert(store, batch) ELSE store
             /\ IF resp.transport
                THEN Finish("err_transport")
                ELSE Finish("ok")
    /\ UNCHANGED << corpus, apiKey, collExists, history, mode, texts, i,
                    points, query, queryVector, printedId >>

(* main, Some(query): embed the query. *)
QueryEmbed ==
    /\ pc = "qembed"
    /\ \E resp \in EmbedResponses :
         LET r == EmbedText(apiKey, resp)
         IN  /\ requests' = IF r.sent
                            THEN Append(requests, Request("embed", << query >>, resp))
                            ELSE requests
             /\ IF r.ok
                THEN /\ queryVector' = r.vector
                     /\ pc' = "search"
                     /\ UNCHANGED outcome
                ELSE /\ Finish(r.err)
                     /\ UNCHANGED queryVector
    /\ UNCHANGED << corpus, apiKey, collExists, store, history, mode, texts,
                    i, points, query, printedId >>

(* main, Some(query): search, take the first result, print its id. *)
Search ==
    /\ pc = "search"
    /\ \E resp \in SearchResponses :
         /\ requests' = Append(requests,
                Request("search", [vector |-> queryVector], resp))
         /\ IF resp.transport
            THEN Finish("err_transport") /\ UNCHANGED printedId
            ELSE IF resp.shape # "result"
            THEN Finish("err_deser") /\ UNCHANGED printedId
            ELSE LET m == MostSimilar(resp.result)
                 IN  IF m.found
                     THEN Finish("ok") /\ printedId' = m.id
                     ELSE Finish("err_nomatch") /\ UNCHANGED printedId
    /\ UNCHANGED << corpus, apiKey, collExists, store, history, mode, texts,
                    i, points, query, queryVector >>

(* The process has exited; the program is invoked once more.  The index    *)
(* service, the file and the environment are what the first run left.      *)
Reinvoke ==
    /\ pc = "done"
    /\ history = << >>
    /\ history' = Append(history,
            [mode |-> mode, outcome |-> outcome, texts |-> texts,
             requests |-> requests, store |-> store])
    /\ mode' = "unset"
    /\ pc' = "start"
    /\ texts' = << >>
    /\ i' = 0
    /\ points' = << >>
    /\ query' = << >>
    /\ queryVector' = << >>
    /\ requests' = << >>
    /\ outcome' = "running"
    /\ printedId' = NoId
    /\ UNCHANGED << corpus, apiKey, collExists, store >>

Next ==
    \/ MainLoad
    \/ MainQuery
    \/ MainNone
    \/ CreateCollection
    \/ EmbedChunk
    \/ AddPoints
    \/ QueryEmbed
    \/ Search
    \/ Reinvoke

Spec == Init /\ [][Next]_vars

----------------------------------------------------------------------------
(* Type invariant *)

Outcomes == { "running", "ok", "err_io", "err_config", "err_header",
              "err_transport", "err_deser", "err_nomatch" }

TypeOK ==
    /\ mode \in { "unset", "load", "query", "none" }
    /\ pc \in { "start", "create", "loop", "qembed", "search", "done" }
    /\ outcome \in Outcomes
    /\ i = Len(points)
    /\ (pc = "done") = (outcome # "running")

----------------------------------------------------------------------------
(* Helpers for the properties *)

Positions(op) == { j \in 1..Len(requests) : requests[j].op = op }

EmbedEntries(log) == SelectSeq(log, LAMBDA e : e.op = "embed")

UpsertEntries(log) == SelectSeq(log, LAMBDA e : e.op = "upsert")

Answered(e) == ~e.resp.transport

Rejected(e) == Answered(e) /\ e.resp.status = "err"

Accepted(e) == Answered(e) /\ e.resp.status = "ok"

EmbedFailed(e) == e.resp.transport \/ e.resp.shape # "flat"

(* The chunks joined again with the delimiter between them. *)
RECURSIVE Join(_)
Join(ts) ==
    IF Len(ts) = 0 THEN << >>
    ELSE IF Len(ts) = 1 THEN ts[1]
    ELSE ts[1] \o << NL, NL >> \o Join(Tail(ts))

HasDelimiter(c) == \E k \in 1..(Len(c) - 1) : c[k] = NL /\ c[k + 1] = NL

LoadRan == mode = "load" /\ pc \notin { "start" } /\ outcome # "err_io"

----------------------------------------------------------------------------
(* Properties *)

(* C1: if the index service answers the collection-creation request with   *)
(* a non-success status, the run ends in a fatal error and no point-upload *)
(* request is issued in that run.                                          *)
C1_CreateRejectedIsFatal ==
    \A j \in Positions("create") :
        Rejected(requests[j]) =>
            /\ Positions("upsert") = {}
            /\ outcome # "ok"

(* C2: if the index service rejects the batch upsert request, the run      *)
(* never reaches the successful outcome.                                   *)
C2_UpsertRejectedFailsRun ==
    \A j \in Positions("upsert") :
        Rejected(requests[j]) => outcome # "ok"

C5_EmptyResultIsNoMatch ==
    /\ \A j \in Positions("search") :
          (Answered(requests[j]) /\ requests[j].resp.shape = "result") =>
              IF Len(requests[j].resp.result) = 0
              THEN outcome = "err_nomatch" /\ printedId = NoId
              ELSE outcome = "ok" /\ printedId = requests[j].resp.result[1].id
    /\ (outcome = "err_nomatch") =>
          /\ Positions("search") # {}
          /\ \A j \in Positions("search") :
                 /\ Answered(requests[j])
                 /\ requests[j].resp.shape = "result"
                 /\ requests[j].resp.result = << >>
    /\ (printedId # NoId) => (mode = "query" /\ outcome = "ok")

C5_Witness ==
    /\ mode = "query"
    /\ outcome = "err_nomatch"
    /\ printedId = NoId

(* C6: the uploaded batch has exactly n points and its i-th point has id   *)
(* i, the vector the embedding call for chunk i returned, and the payload  *)
(* text chunk i.                                                           *)
C6_BatchMirrorsChunks ==
    \A j \in Positions("upsert") :
        LET batch == requests[j].body
            embeds == EmbedEntries(requests)
        IN  /\ Len(batch) = Len(texts)
            /\ Len(embeds) = Len(texts)
            /\ \A k \in 1..Len(batch) :
                   /\ batch[k].id = k - 1
                   /\ batch[k].vector = embeds[k].resp.data
                   /\ batch[k].payload = [text |-> texts[k]]
                   /\ embeds[k].body = << texts[k] >>
            /\ \A k, m \in 1..Len(batch) :
                   (batch[k].id = batch[m].id) => k = m

C6_Witness ==
    \E j \in Positions("upsert") :
        /\ Len(requests[j].body) >= 2
        /\ requests[j].body[1].vector # requests[j].body[2].vector

(* C7 (as stated): the chunker splits on the delimiter, keeps order and    *)
(* empty pieces, and yields the empty sequence for the empty corpus, so    *)
(* that ingesting it issues no embedding request and uploads no point.     *)
C7_EmptyCorpusNoChunks ==
    LoadRan =>
        /\ Join(texts) = corpus
        /\ (corpus = << >>) =>
               /\ texts = << >>
               /\ Positions("embed") = {}
               /\ \A j \in Positions("upsert") : requests[j].body = << >>

(* C7 (amended): the chunker splits on the delimiter, keeps order and      *)
(* empty pieces, and always yields one chunk more than delimiters it       *)
(* matched; for the empty corpus it yields the one empty chunk, so that    *)
(* an ingestion of it that reaches the upsert has issued one embedding     *)
(* request and uploads one point.                                          *)
C7_EmptyCorpusOneEmptyChunk ==
    LoadRan =>
        /\ Join(texts) = corpus
        /\ Len(texts) >= 1
        /\ \A k \in 1..Len(texts) : ~HasDelimiter(texts[k])
        /\ (corpus = << >>) =>
               /\ texts = << << >> >>
               /\ \A j \in Positions("upsert") :
                      /\ Len(requests[j].body) = 1
                      /\ requests[j].body[1].payload = [text |-> << >>]
                      /\ Cardinality(Positions("embed")) = 1

C7_Witness ==
    /\ corpus = << >>
    /\ LoadRan
    /\ Positions("upsert") # {}

(* C8: in every ingestion run that ends in success every uploaded vector   *)
(* has the declared vector size, and each is sent as the provider gave it. *)
C8_SuccessImpliesDeclaredSize ==
    (mode = "load" /\ outcome = "ok") =>
        \A j \in Positions("upsert") :
            \A k \in 1..Len(requests[j].body) :
                /\ Len(requests[j].body[k].vector) = VectorSize
                /\ requests[j].body[k].vector = EmbedEntries(requests)[k].resp.data

(* C9: two successful ingestions of the same corpus, with the provider     *)
(* answering the same vectors and the service accepting both upserts,      *)
(* upload the same ids and leave the collection as the first one did.      *)
SameEmbeddings(log1, log2) ==
    /\ Len(EmbedEntries(log1)) = Len(EmbedEntries(log2))
    /\ \A k \in 1..Len(EmbedEntries(log1)) :
           EmbedEntries(log1)[k].resp = EmbedEntries(log2)[k].resp

IngestedOk(m, o, log) ==
    /\ m = "load"
    /\ o = "ok"
    /\ Len(UpsertEntries(log)) = 1
    /\ Accepted(UpsertEntries(log)[1])

BatchIds(log) ==
    LET b == UpsertEntries(log)[1].body
    IN  [k \in 1..Len(b) |-> b[k].id]

TwiceIngested ==
    /\ Len(history) = 1
    /\ IngestedOk(history[1].mode, history[1].outcome, history[1].requests)
    /\ IngestedOk(mode, outcome, requests)
    /\ SameEmbeddings(history[1].requests, requests)

C9_ReingestionIdempotent ==
    TwiceIngested =>
        /\ BatchIds(requests) = BatchIds(history[1].requests)
        /\ store = history[1].store
        /\ Cardinality(store) = Len(texts)
        /\ \A p, q \in store : (p.id = q.id) => p = q

C9_Witness ==
    /\ TwiceIngested
    /\ Len(texts) >= 2

(* C10: a failed embedding call ends the run there: the failed request is  *)
(* the last one issued, so no later chunk is embedded, nothing is upserted *)
(* and nothing is searched, and the run ends in error.                     *)
C10_EmbedFailureAborts ==
    /\ \A j \in Positions("embed") :
          EmbedFailed(requests[j]) =>
              /\ j = Len(requests)
              /\ pc = "done"
              /\ outcome \in { "err_transport", "err_deser" }
    /\ (outcome \in { "err_config", "err_header" }) =>
          /\ pc = "done"
          /\ Positions("upsert") = {}
          /\ Positions("search") = {}
          /\ Cardinality(Positions("embed")) = Len(points)
          /\ (mode = "load") => Len(points) < Len(texts)

C10_Witness ==
    /\ mode = "load"
    /\ Len(texts) >= 2
    /\ outcome = "err_deser"
    /\ Len(points) = 0
    /\ Len(requests) = 2

====
